---- MODULE Spec2Model ----
(***************************************************************************)
(* Inverted index + boolean retrieval (HW1_206567067_319001855.py).        *)
(*                                                                         *)
(* Strings are sequences of one-character strings, so that str.split,      *)
(* str.lower, str.strip, str.replace and ' '.join are computed and not     *)
(* assumed.  A dict is a function; the defaultdict posting_list is a       *)
(* function whose missing keys are inserted on subscript access.           *)
(***************************************************************************)
EXTENDS Integers, Sequences, FiniteSets, TLC

VARIABLES
    collection,    \* the (DOCNO text, contents) blocks yielded by the corpus iterator
    pc,            \* position of the main script
    i,             \* InvertedIndex.__init__: next internal id
    documents,     \* InvertedIndex.documents
    posting_list,  \* InvertedIndex.posting_list (a defaultdict(list))
    all_docs,      \* BooleanRetrieval.all_docs
    queries,       \* the lines of the query file
    qi,            \* index of the next query of the batch loop
    Part_2,        \* the lines written to Part_2.txt
    call,          \* the last eval_boolean_query / run_query call and its outcome
    top_ten_terms,    \* Part 3a: the top_bottom_n_terms call and its return value
    bottom_ten_terms  \* Part 3b: the top_bottom_n_terms call and its return value

vars == <<collection, pc, i, documents, posting_list, all_docs, queries, qi,
          Part_2, call, top_ten_terms, bottom_ten_terms>>

(***************************************************************************)
(* Bounds                                                                  *)
(***************************************************************************)
MaxDocs == 2       \* longest generated collection
MaxQueries == 2    \* longest query file
MaxN == 2          \* largest n passed to top_bottom_n_terms besides the default

(***************************************************************************)
(* Characters and strings                                                  *)
(***************************************************************************)
\* The characters used, in code point order.
Chars ==
    << "\t", "\n", " ",
       "0", "1", "2", "3", "4", "5", "6", "7", "8", "9",
       "A", "B", "C", "D", "E", "F", "G", "H", "I", "J", "K", "L", "M",
       "N", "O", "P", "Q", "R", "S", "T", "U", "V", "W", "X", "Y", "Z",
       "a", "b", "c", "d", "e", "f", "g", "h", "i", "j", "k", "l", "m",
       "n", "o", "p", "q", "r", "s", "t", "u", "v", "w", "x", "y", "z" >>

OrdTable == [ch \in {Chars[k] : k \in 1..Len(Chars)} |->
                CHOOSE k \in 1..Len(Chars) : Chars[k] = ch]

Ord(ch) == OrdTable[ch]

Whitespace == {"\t", "\n", " "}

\* Python's ordering of str: lexicographic by code point.
RECURSIVE StrLess(_, _)
StrLess(s, t) ==
    IF t = <<>> THEN FALSE
    ELSE IF s = <<>> THEN TRUE
    ELSE IF Head(s) = Head(t) THEN StrLess(Tail(s), Tail(t))
    ELSE Ord(Head(s)) < Ord(Head(t))

\* str.lower()
LowerTable == [ch \in DOMAIN OrdTable |->
                  IF OrdTable[ch] \in OrdTable["A"]..OrdTable["Z"]
                  THEN Chars[OrdTable[ch] + (OrdTable["a"] - OrdTable["A"])]
                  ELSE ch]

lower(s) == [k \in 1..Len(s) |-> LowerTable[s[k]]]

\* str.strip()
RECURSIVE lstrip(_)
lstrip(s) ==
    IF s # <<>> /\ Head(s) \in Whitespace THEN lstrip(Tail(s)) ELSE s

RECURSIVE rstrip(_)
rstrip(s) ==
    IF s # <<>> /\ s[Len(s)] \in Whitespace
    THEN rstrip(SubSeq(s, 1, Len(s) - 1)) ELSE s

strip(s) == rstrip(lstrip(s))

\* str.split(): the maximal runs of non-whitespace characters.
RECURSIVE split_ws(_, _, _)
split_ws(s, word, res) ==
    IF s = <<>> THEN (IF word = <<>> THEN res ELSE Append(res, word))
    ELSE IF Head(s) \in Whitespace
         THEN split_ws(Tail(s), <<>>, IF word = <<>> THEN res ELSE Append(res, word))
         ELSE split_ws(Tail(s), Append(word, Head(s)), res)

split(s) == split_ws(s, <<>>, <<>>)

\* str.split(' '): one field per single space, empty fields kept.
RECURSIVE split_sp(_, _, _)
split_sp(s, word, res) ==
    IF s = <<>> THEN Append(res, word)
    ELSE IF Head(s) = " "
         THEN split_sp(Tail(s), <<>>, Append(res, word))
         ELSE split_sp(Tail(s), Append(word, Head(s)), res)

split_space(s) == split_sp(s, <<>>, <<>>)

\* str.replace('\n', '')
remove_newlines(s) == SelectSeq(s, LAMBDA c : c # "\n")

\* ' '.join(strings)
RECURSIVE join(_)
join(strings) ==
    IF strings = <<>> THEN <<>>
    ELSE IF Len(strings) = 1 THEN strings[1]
    ELSE strings[1] \o <<" ">> \o join(Tail(strings))

(***************************************************************************)
(* Lists of integers                                                       *)
(***************************************************************************)
SetOf(list) == {list[k] : k \in 1..Len(list)}

Min(S) == CHOOSE x \in S : \A y \in S : x <= y

\* sorted(list(set(l))) for integers whose first key component is the integer
RECURSIVE sorted_set(_)
sorted_set(S) ==
    IF S = {} THEN <<>> ELSE <<Min(S)>> \o sorted_set(S \ {Min(S)})

(***************************************************************************)
(* Part 1: InvertedIndex                                                   *)
(***************************************************************************)
EmptyDict == [k \in {} |-> <<>>]

\* d[key] = value on a dict
Put(d, key, value) == [k \in DOMAIN d \cup {key} |-> IF k = key THEN value ELSE d[k]]

\* The dict after the subscript access d[key] on a defaultdict(list):
\* a missing key is inserted with a new empty list.
Subscript(d, key) == IF key \in DOMAIN d THEN d ELSE Put(d, key, <<>>)

\* update_posting_list: append doc_id once per occurrence of a term
RECURSIVE append_terms(_, _, _)
append_terms(pl, terms, doc_id) ==
    IF terms = <<>> THEN pl
    ELSE LET term == Head(terms)
             d    == Subscript(pl, term)
         IN  append_terms(IF term # <<>> THEN Put(d, term, Append(d[term], doc_id)) ELSE pl,
                          Tail(terms), doc_id)

update_posting_list(pl, document, doc_id) == append_terms(pl, split(document), doc_id)

\* sort_posting_list with sorted(list) in place of sorted(list(set(list)))
RECURSIVE sorted_list(_)
sorted_list(l) ==
    IF l = <<>> THEN <<>>
    ELSE LET k == CHOOSE j \in 1..Len(l) : \A m \in 1..Len(l) : l[j] <= l[m]
         IN  <<l[k]>> \o sorted_list(SubSeq(l, 1, k - 1) \o SubSeq(l, k + 1, Len(l)))

sort_posting_list_no_set(pl) == [term \in DOMAIN pl |-> sorted_list(pl[term])]

\* sort_posting_list: every list becomes sorted(list(set(list))); the key
\* (x, documents[x]) is decided by x, the values of a set being distinct.
sort_posting_list(pl) == [term \in DOMAIN pl |-> sorted_set(SetOf(pl[term]))]

\* The index __init__ builds from documents 0..k-1 of a documents table.
RECURSIVE raw_postings(_, _)
raw_postings(docs, k) ==
    IF k = 0 THEN EmptyDict
    ELSE update_posting_list(raw_postings(docs, k - 1), docs[k - 1].contents, k - 1)

InvertedIndex(docs) == sort_posting_list(raw_postings(docs, Cardinality(DOMAIN docs)))

\* top_bottom_n_terms: the (term, len) items sorted by (len, term), reversed
\* for top, cut to the first n.
KeyLess(a, b) == a[2] < b[2] \/ (a[2] = b[2] /\ StrLess(a[1], b[1]))

RECURSIVE sorted_items(_)
sorted_items(S) ==
    IF S = {} THEN <<>>
    ELSE LET m == CHOOSE a \in S : \A b \in S \ {a} : KeyLess(a, b)
         IN  <<m>> \o sorted_items(S \ {m})

Reverse(s) == [k \in 1..Len(s) |-> s[Len(s) + 1 - k]]

Slice(s, n) == SubSeq(s, 1, IF n < Len(s) THEN n ELSE Len(s))

\* top_bottom_n_terms with the reversal applied to the cardinality alone
\* (higher cardinality first, earlier term first among ties)
RECURSIVE sorted_by_count_desc(_)
sorted_by_count_desc(S) ==
    IF S = {} THEN <<>>
    ELSE LET m == CHOOSE x \in S : \A y \in S \ {x} :
                      x[2] > y[2] \/ (x[2] = y[2] /\ StrLess(x[1], y[1]))
         IN  <<m>> \o sorted_by_count_desc(S \ {m})

top_bottom_n_terms_count_only(pl, n, top) ==
    LET term_frequencies == {<<term, Len(pl[term])>> : term \in DOMAIN pl}
    IN  Slice(IF top THEN sorted_by_count_desc(term_frequencies)
              ELSE sorted_items(term_frequencies), n)

top_bottom_n_terms(pl, n, top) ==
    LET term_frequencies == {<<term, Len(pl[term])>> : term \in DOMAIN pl}
        ascending        == sorted_items(term_frequencies)
    IN  Slice(IF top THEN Reverse(ascending) ELSE ascending, n)

(***************************************************************************)
(* Part 2: BooleanRetrieval                                                *)
(***************************************************************************)
AND == <<"A", "N", "D">>
OR  == <<"O", "R">>
NOT == <<"N", "O", "T">>
operators == {AND, OR, NOT}

\* The two-cursor merges; cursors are 1-based here.
RECURSIVE and_merge(_, _, _, _, _)
and_merge(list1, list2, l1, l2, res) ==
    IF l1 <= Len(list1) /\ l2 <= Len(list2)
    THEN IF list1[l1] = list2[l2]
         THEN and_merge(list1, list2, l1 + 1, l2 + 1, Append(res, list1[l1]))
         ELSE IF list1[l1] < list2[l2]
              THEN and_merge(list1, list2, l1 + 1, l2, res)
              ELSE and_merge(list1, list2, l1, l2 + 1, res)
    ELSE res

and_query(ordered_list1, ordered_list2) ==
    and_merge(ordered_list1, ordered_list2, 1, 1, <<>>)

RECURSIVE or_merge(_, _, _, _, _)
or_merge(list1, list2, l1, l2, res) ==
    IF l1 <= Len(list1) /\ l2 <= Len(list2)
    THEN IF list1[l1] = list2[l2]
         THEN or_merge(list1, list2, l1 + 1, l2 + 1, Append(res, list1[l1]))
         ELSE IF list1[l1] < list2[l2]
              THEN or_merge(list1, list2, l1 + 1, l2, Append(res, list1[l1]))
              ELSE or_merge(list1, list2, l1, l2 + 1, Append(res, list2[l2]))
    ELSE res \o SubSeq(list1, l1, Len(list1)) \o SubSeq(list2, l2, Len(list2))

\* or_query whose third branch advances l2 without emitting
RECURSIVE or_merge_skips(_, _, _, _, _)
or_merge_skips(list1, list2, l1, l2, res) ==
    IF l1 <= Len(list1) /\ l2 <= Len(list2)
    THEN IF list1[l1] = list2[l2]
         THEN or_merge_skips(list1, list2, l1 + 1, l2 + 1, Append(res, list1[l1]))
         ELSE IF list1[l1] < list2[l2]
              THEN or_merge_skips(list1, list2, l1 + 1, l2, Append(res, list1[l1]))
              ELSE or_merge_skips(list1, list2, l1, l2 + 1, res)
    ELSE res \o SubSeq(list1, l1, Len(list1)) \o SubSeq(list2, l2, Len(list2))

or_query_skips(ordered_list1, ordered_list2) ==
    or_merge_skips(ordered_list1, ordered_list2, 1, 1, <<>>)

or_query(ordered_list1, ordered_list2) ==
    or_merge(ordered_list1, ordered_list2, 1, 1, <<>>)

RECURSIVE not_merge(_, _, _, _, _)
not_merge(list1, list2, l1, l2, res) ==
    IF l1 <= Len(list1) /\ l2 <= Len(list2)
    THEN IF list1[l1] = list2[l2]
         THEN not_merge(list1, list2, l1 + 1, l2 + 1, res)
         ELSE IF list1[l1] < list2[l2]
              THEN not_merge(list1, list2, l1 + 1, l2, Append(res, list1[l1]))
              ELSE not_merge(list1, list2, l1, l2 + 1, res)
    ELSE res \o SubSeq(list1, l1, Len(list1))

\* not_query returning res without the rest of the universe
RECURSIVE not_merge_no_rest(_, _, _, _, _)
not_merge_no_rest(list1, list2, l1, l2, res) ==
    IF l1 <= Len(list1) /\ l2 <= Len(list2)
    THEN IF list1[l1] = list2[l2]
         THEN not_merge_no_rest(list1, list2, l1 + 1, l2 + 1, res)
         ELSE IF list1[l1] < list2[l2]
              THEN not_merge_no_rest(list1, list2, l1 + 1, l2, Append(res, list1[l1]))
              ELSE not_merge_no_rest(list1, list2, l1, l2 + 1, res)
    ELSE res

not_query_no_rest(universe, ordered_list2) ==
    not_merge_no_rest(universe, ordered_list2, 1, 1, <<>>)

not_query(universe, ordered_list2) ==
    not_merge(universe, ordered_list2, 1, 1, <<>>)

\* query.replace('\n', '').split(' ')
tokenize(query) == split_space(remove_newlines(query))

\* The token loop of eval_boolean_query.  stack.pop() on an empty stack
\* raises IndexError, which ends the call; the posting_list keeps the keys
\* inserted by the tokens before it.
Raised(stack, pl) == [raised |-> TRUE, stack |-> stack, posting_list |-> pl]

RECURSIVE token_loop(_, _, _, _)
token_loop(words, stack, pl, universe) ==
    IF words = <<>> THEN [raised |-> FALSE, stack |-> stack, posting_list |-> pl]
    ELSE LET word == Head(words)
             n    == Len(stack)
         IN  IF word \notin operators
             THEN LET term == lower(word)
                      d    == Subscript(pl, term)
                  IN  token_loop(Tail(words), Append(stack, d[term]), d, universe)
             ELSE IF word = AND
             THEN IF n < 2 THEN Raised(<<>>, pl)
                  ELSE token_loop(Tail(words),
                           Append(SubSeq(stack, 1, n - 2), and_query(stack[n - 1], stack[n])),
                           pl, universe)
             ELSE IF word = OR
             THEN IF n < 2 THEN Raised(<<>>, pl)
                  ELSE token_loop(Tail(words),
                           Append(SubSeq(stack, 1, n - 2), or_query(stack[n - 1], stack[n])),
                           pl, universe)
             ELSE IF n < 1 THEN Raised(<<>>, pl)
                  ELSE token_loop(Tail(words),
                           Append(SubSeq(stack, 1, n - 1), not_query(universe, stack[n])),
                           pl, universe)

\* Lines 117-121 without the len(stack) == 2 branch
finish_top_only(stack) ==
    IF stack = <<>> THEN [raised |-> TRUE, value |-> <<>>]
    ELSE [raised |-> FALSE, value |-> stack[Len(stack)]]

\* Lines 117-121: two values left are ANDed; then the top of the stack is
\* returned, and popping an empty stack raises.
finish(stack) ==
    LET n     == Len(stack)
        final == IF n = 2 THEN <<and_query(stack[1], stack[2])>> ELSE stack
    IN  IF final = <<>> THEN [raised |-> TRUE, value |-> <<>>]
        ELSE [raised |-> FALSE, value |-> final[Len(final)]]

\* eval_boolean_query: the outcome (raised or the list returned), the stack
\* as line 117 finds it, and the posting_list the call leaves behind.
eval_boolean_query(query, pl, universe) ==
    LET loop == token_loop(tokenize(query), <<>>, pl, universe)
        end  == finish(loop.stack)
    IN  [raised       |-> loop.raised \/ end.raised,
         value        |-> IF loop.raised THEN <<>> ELSE end.value,
         stack        |-> loop.stack,
         underflow    |-> loop.raised,
         posting_list |-> loop.posting_list]

\* run_query: the original ids of the internal ids returned
run_query(ids, docs) == [k \in 1..Len(ids) |-> docs[ids[k]].internal_id]

(***************************************************************************)
(* Inputs: collections and query files                                     *)
(***************************************************************************)
sp == <<" ">>
nl == <<"\n">>
cat  == <<"c", "a", "t">>
dog  == <<"d", "o", "g">>
bird == <<"b", "i", "r", "d">>
emu  == <<"e", "m", "u">>
Cat  == <<"C", "a", "t">>
a    == <<"a">>
b    == <<"b">>
c    == <<"c">>

D(k) == <<"D", Chars[Ord("0") + k]>>

\* Contents of the generated collections: repeated terms, mixed case, runs
\* of whitespace.
ContentsPool ==
    { dog \o sp \o bird \o sp \o dog,
      sp \o Cat \o <<"\t">> \o cat \o sp \o sp \o bird }

\* The three documents "cat dog", "dog bird", "cat bird"
EndToEnd == << cat \o sp \o dog, dog \o sp \o bird, cat \o sp \o bird >>

\* Terms with cardinalities a:5, b:3, c:5
Frequencies ==
    << a \o sp \o b \o sp \o c, c \o sp \o a \o sp \o b, a \o sp \o c,
       b \o sp \o a \o sp \o c \o sp \o b, c \o sp \o a >>

SeqsUpTo(S, n) == UNION {[1..m -> S] : m \in 0..n}

Collections == SeqsUpTo(ContentsPool, MaxDocs) \cup {EndToEnd, Frequencies}

\* The lines of a query file, as readlines() gives them.
CatDogAnd  == cat \o sp \o dog \o sp \o AND \o nl
CatBirdOr  == cat \o sp \o bird \o sp \o OR \o nl
DogNot     == dog \o sp \o NOT \o nl
CatDog     == cat \o sp \o dog \o nl
WideAnd    == cat \o sp \o sp \o dog \o sp \o AND \o nl
EmuAnd     == emu \o sp \o AND \o nl
ThreeTerms == Cat \o sp \o emu \o sp \o bird \o nl
Nested     == Cat \o sp \o bird \o sp \o NOT \o sp \o OR \o sp \o NOT

QueryLines ==
    {CatDogAnd, CatBirdOr, DogNot, CatDog, WideAnd, EmuAnd, ThreeTerms, Nested}

QueryFiles == SeqsUpTo(QueryLines, MaxQueries)

\* The values of n: small ones and the default of the method and the script.
DefaultN == 10
NValues == 0..MaxN \cup {DefaultN}

(***************************************************************************)
(* The main script                                                         *)
(***************************************************************************)
NoCall == [status |-> "none", query |-> <<>>, underflow |-> FALSE, stack |-> <<>>,
           value |-> <<>>, result |-> <<>>]
NoReport == [called |-> FALSE, n |-> 0, top |-> FALSE, value |-> <<>>]

Init ==
    /\ \E contents \in Collections :
          collection = [k \in 1..Len(contents) |->
                           [docno |-> sp \o D(k) \o sp, contents |-> contents[k]]]
    /\ pc = "index"
    /\ i = 0
    /\ documents = EmptyDict
    /\ posting_list = EmptyDict
    /\ all_docs = <<>>
    /\ queries = <<>>
    /\ qi = 1
    /\ Part_2 = <<>>
    /\ call = NoCall
    /\ top_ten_terms = NoReport
    /\ bottom_ten_terms = NoReport

\* InvertedIndex.__init__, one document of the loop (lines 22-27)
IndexDocument ==
    /\ pc = "index"
    /\ i < Len(collection)
    /\ LET document    == collection[i + 1]
           internal_id == strip(document.docno)
       IN  /\ documents' = Put(documents, i,
                               [contents |-> document.contents, internal_id |-> internal_id])
           /\ posting_list' = update_posting_list(posting_list, document.contents, i)
    /\ i' = i + 1
    /\ UNCHANGED <<collection, pc, all_docs, queries, qi, Part_2, call, top_ten_terms, bottom_ten_terms>>

\* InvertedIndex.__init__, after the loop (line 28)
SortPostingList ==
    /\ pc = "index"
    /\ i = Len(collection)
    /\ posting_list' = sort_posting_list(posting_list)
    /\ pc' = "retrieval"
    /\ UNCHANGED <<collection, i, documents, all_docs, queries, qi, Part_2, call,
                   top_ten_terms, bottom_ten_terms>>

\* BooleanRetrieval.__init__ (lines 95-96)
BooleanRetrievalInit ==
    /\ pc = "retrieval"
    /\ all_docs' = [k \in 1..Cardinality(DOMAIN documents) |-> k - 1]
    /\ pc' = "read"
    /\ UNCHANGED <<collection, i, documents, posting_list, queries, qi, Part_2, call,
                   top_ten_terms, bottom_ten_terms>>

\* queries = f.readlines() (lines 195-196)
ReadQueries ==
    /\ pc = "read"
    /\ queries' \in QueryFiles
    /\ pc' = "queries"
    /\ UNCHANGED <<collection, i, documents, posting_list, all_docs, qi, Part_2, call,
                   top_ten_terms, bottom_ten_terms>>

\* One query of the batch loop (lines 200-202).  An IndexError raised by
\* eval_boolean_query is caught nowhere: it ends the script.
RunQuery ==
    /\ pc = "queries"
    /\ qi <= Len(queries)
    /\ LET query  == queries[qi]
           eval   == eval_boolean_query(query, posting_list, all_docs)
           result == run_query(eval.value, documents)
       IN  /\ posting_list' = eval.posting_list
           /\ IF eval.raised
              THEN /\ call' = [status |-> "raised", query |-> query,
                               underflow |-> eval.underflow, stack |-> eval.stack,
                               value |-> <<>>, result |-> <<>>]
                   /\ pc' = "aborted"
                   /\ UNCHANGED <<qi, Part_2>>
              ELSE /\ call' = [status |-> "returned", query |-> query,
                               underflow |-> FALSE, stack |-> eval.stack,
                               value |-> eval.value, result |-> result]
                   /\ Part_2' = Append(Part_2, join(result) \o nl)
                   /\ qi' = qi + 1
                   /\ pc' = pc
    /\ UNCHANGED <<collection, i, documents, all_docs, queries, top_ten_terms, bottom_ten_terms>>

\* Part 3a, after the last query (line 206): top_bottom_n_terms(n, top=True)
TopTerms ==
    /\ pc = "queries"
    /\ qi > Len(queries)
    /\ \E n \in NValues :
          top_ten_terms' = [called |-> TRUE, n |-> n, top |-> TRUE,
                            value |-> top_bottom_n_terms(posting_list, n, TRUE)]
    /\ pc' = "part3b"
    /\ UNCHANGED <<collection, i, documents, posting_list, all_docs, queries, qi, Part_2,
                   call, bottom_ten_terms>>

\* Part 3b (line 211): top_bottom_n_terms(n, top=False), n as in Part 3a
BottomTerms ==
    /\ pc = "part3b"
    /\ LET n == top_ten_terms.n
       IN  bottom_ten_terms' = [called |-> TRUE, n |-> n, top |-> FALSE,
                                value |-> top_bottom_n_terms(posting_list, n, FALSE)]
    /\ pc' = "done"
    /\ UNCHANGED <<collection, i, documents, posting_list, all_docs, queries, qi, Part_2,
                   call, top_ten_terms>>

Next ==
    \/ IndexDocument
    \/ SortPostingList
    \/ BooleanRetrievalInit
    \/ ReadQueries
    \/ RunQuery
    \/ TopTerms
    \/ BottomTerms

Spec == Init /\ [][Next]_vars

(***************************************************************************)
(* Properties                                                              *)
(***************************************************************************)
StrictlyAscending(list) == \A k \in 1..Len(list) - 1 : list[k] < list[k + 1]

Finalized == pc # "index"

Called == call.status # "none"

ContentsOf(coll) == [k \in 1..Len(coll) |-> coll[k].contents]

\* The posting list stored for a term, empty when the term is absent
Stored(term) == IF term \in DOMAIN posting_list THEN posting_list[term] ELSE <<>>

\* C1: once the index is finalized the posting store is read-only: no step
\* (a query that returns, a query that raises, a report) changes the set of
\* terms or the posting list of any term.
C1_PostingStoreReadOnly == [][Finalized => posting_list' = posting_list]_vars

\* C2: after all tokens are consumed, a final stack of exactly one value
\* returns that value, and a final stack of any size other than 1 or 2
\* raises: no result list is returned.
C2_FinalStackSizes ==
    (Called /\ ~call.underflow) =>
        /\ Len(call.stack) = 1 =>
              (call.status = "returned" /\ call.value = call.stack[1])
        /\ Len(call.stack) \notin {1, 2} => call.status = "raised"

\* Set semantics of a postfix token stream: a stack of sets of internal ids,
\* empty when an operator lacks operands.
RECURSIVE SetEval(_, _)
SetEval(words, sets) ==
    IF words = <<>> THEN sets
    ELSE LET word == Head(words)
             n    == Len(sets)
             U    == 0..(Cardinality(DOMAIN documents) - 1)
         IN  IF word \notin operators
             THEN SetEval(Tail(words), Append(sets, SetOf(Stored(lower(word)))))
             ELSE IF word = NOT
             THEN IF n < 1 THEN <<>>
                  ELSE SetEval(Tail(words), Append(SubSeq(sets, 1, n - 1), U \ sets[n]))
             ELSE IF n < 2 THEN <<>>
             ELSE SetEval(Tail(words),
                      Append(SubSeq(sets, 1, n - 2),
                             IF word = AND THEN sets[n - 1] \cap sets[n]
                                           ELSE sets[n - 1] \cup sets[n]))

WellFormed(words) == Len(SetEval(words, <<>>)) = 1

\* C3: a well-formed postfix query (no underflow, one value left) returns
\* the strictly ascending list of the set the query denotes, with AND as
\* intersection, OR as union, NOT as complement in 0..N-1 and a term as the
\* posting list stored under its lowercased form.
C3_SetSemantics ==
    (Called /\ WellFormed(tokenize(call.query))) =>
        /\ call.status = "returned"
        /\ StrictlyAscending(call.value)
        /\ SetOf(call.value) = SetEval(tokenize(call.query), <<>>)[1]

C3_Witness ==
    /\ call.status = "returned"
    /\ call.query = Nested
    /\ WellFormed(tokenize(call.query))
    /\ ContentsOf(collection) = EndToEnd
    /\ call.value = <<1>>

\* C4 as stated: on the documents D1 "cat dog", D2 "dog bird", D3 "cat bird",
\* "cat dog AND" gives [D1], "cat bird OR" gives [D1, D3], "dog NOT" gives [D3].
C4_EndToEndAsStated ==
    (Called /\ ContentsOf(collection) = EndToEnd) =>
        /\ call.query = CatDogAnd =>
              (call.status = "returned" /\ call.result = <<D(1)>>)
        /\ call.query = CatBirdOr =>
              (call.status = "returned" /\ call.result = <<D(1), D(3)>>)
        /\ call.query = DogNot =>
              (call.status = "returned" /\ call.result = <<D(3)>>)

\* C4 amended: on the same documents "cat dog AND" gives [D1], "cat bird OR"
\* gives [D1, D2, D3] and "dog NOT" gives [D3].
C4_EndToEnd ==
    (Called /\ ContentsOf(collection) = EndToEnd) =>
        /\ call.query = CatDogAnd =>
              (call.status = "returned" /\ call.result = <<D(1)>>)
        /\ call.query = CatBirdOr =>
              (call.status = "returned" /\ call.result = <<D(1), D(2), D(3)>>)
        /\ call.query = DogNot =>
              (call.status = "returned" /\ call.result = <<D(3)>>)

C4_Witness ==
    /\ ContentsOf(collection) = EndToEnd
    /\ queries = <<DogNot, CatBirdOr>>
    /\ call.query = CatBirdOr
    /\ Part_2 = << D(3) \o nl, D(1) \o sp \o D(2) \o sp \o D(3) \o nl >>

\* The elements of list1 that are in list2, in the order of list1
Common(list1, list2) == SelectSeq(list1, LAMBDA x : x \in SetOf(list2))

\* C5: when exactly two values are left after the last token, the call
\* returns their AND, which is also what the query followed by " AND"
\* returns; "t1 t2" returns the same as "t1 t2 AND".
C5_ImplicitAnd ==
    (Called /\ ~call.underflow /\ Len(call.stack) = 2) =>
        LET explicit == eval_boolean_query(remove_newlines(call.query) \o sp \o AND,
                                           posting_list, all_docs)
        IN  /\ call.status = "returned"
            /\ call.value = Common(call.stack[1], call.stack[2])
            /\ ~explicit.raised
            /\ Len(explicit.stack) = 1
            /\ call.value = explicit.value

C5_Witness ==
    /\ call.status = "returned"
    /\ call.query = CatDog
    /\ call.stack = << <<0, 2>>, <<0, 1>> >>
    /\ call.value = <<0>>

\* term occurs in contents as a whitespace-delimited token
Occurs(term, contents) ==
    /\ term # <<>>
    /\ \A k \in 1..Len(term) : term[k] \notin Whitespace
    /\ \E from \in 1..Len(contents) :
          LET to == from + Len(term) - 1
          IN  /\ to <= Len(contents)
              /\ SubSeq(contents, from, to) = term
              /\ (from = 1 \/ contents[from - 1] \in Whitespace)
              /\ (to = Len(contents) \/ contents[to + 1] \in Whitespace)

\* C6: in every state after finalization, queries run or not, the documents
\* have the internal ids 0..N-1 in discovery order and every posting list is
\* strictly ascending, holds ids of existing documents only, and holds
\* exactly the ids of the documents whose content contains the term.
C6_PostingLists ==
    Finalized =>
        /\ DOMAIN documents = 0..(Len(collection) - 1)
        /\ \A d \in DOMAIN documents :
              documents[d].contents = collection[d + 1].contents
        /\ \A term \in DOMAIN posting_list :
              /\ StrictlyAscending(posting_list[term])
              /\ SetOf(posting_list[term]) \subseteq DOMAIN documents
              /\ SetOf(posting_list[term]) =
                    {d \in DOMAIN documents : Occurs(term, documents[d].contents)}

C6_Witness ==
    /\ pc = "done"
    /\ call.status = "returned"
    /\ Len(collection) = 2
    /\ collection[1].contents = dog \o sp \o bird \o sp \o dog
    /\ collection[2].contents = sp \o Cat \o <<"\t">> \o cat \o sp \o sp \o bird
    /\ posting_list[dog] = <<0>>
    /\ posting_list[bird] = <<0, 1>>
    /\ posting_list[Cat] = <<1>>

\* A malformed query: stack underflow, or a final stack of a size other
\* than 1 or 2
Malformed(query) ==
    LET eval == eval_boolean_query(query, posting_list, all_docs)
    IN  eval.underflow \/ Len(eval.stack) \notin {1, 2}

\* C7: a malformed query does not abort the batch: once the script has left
\* the batch loop, every query of the file that is not malformed has had its
\* result line written (line k of Part_2 is the line of query k).
C7_BatchSurvivesMalformedQuery ==
    (pc \in {"aborted", "part3b", "done"}) =>
        \A k \in 1..Len(queries) : ~Malformed(queries[k]) => k <= Len(Part_2)

\* x is sorted before y: by (cardinality, term), descending on both for top,
\* ascending on both otherwise
Precedes(x, y, top) ==
    IF top THEN x[2] > y[2] \/ (x[2] = y[2] /\ StrLess(y[1], x[1]))
           ELSE x[2] < y[2] \/ (x[2] = y[2] /\ StrLess(x[1], y[1]))

Items == {<<term, Len(posting_list[term])>> : term \in DOMAIN posting_list}

FirstN(report) ==
    report.called =>
        LET r == report.value
        IN  /\ Len(r) = (IF report.n < Cardinality(Items) THEN report.n
                         ELSE Cardinality(Items))
            /\ \A k \in 1..Len(r) : r[k] \in Items
            /\ \A k \in 1..Len(r) - 1 : Precedes(r[k], r[k + 1], report.top)
            /\ \A x \in Items \ SetOf(r) :
                  \A k \in 1..Len(r) : Precedes(r[k], x, report.top)

\* C8: top_bottom_n_terms(n, top) is the first n (all, when there are fewer)
\* of the (term, cardinality) pairs in the order of the key (cardinality,
\* term), descending on both for top and ascending on both otherwise; for
\* a:5, b:3, c:5 and n = 2 it is [(c,5),(a,5)] and [(b,3),(a,5)].
C8_TopBottom ==
    /\ FirstN(top_ten_terms)
    /\ FirstN(bottom_ten_terms)
    /\ Items = {<<a, 5>>, <<b, 3>>, <<c, 5>>} =>
          /\ (top_ten_terms.called /\ top_ten_terms.n = 2) =>
                top_ten_terms.value = << <<c, 5>>, <<a, 5>> >>
          /\ (bottom_ten_terms.called /\ bottom_ten_terms.n = 2) =>
                bottom_ten_terms.value = << <<b, 3>>, <<a, 5>> >>

C8_Witness ==
    /\ pc = "done"
    /\ Items = {<<a, 5>>, <<b, 3>>, <<c, 5>>}
    /\ top_ten_terms.n = 2
    /\ top_ten_terms.value = << <<c, 5>>, <<a, 5>> >>
    /\ bottom_ten_terms.value = << <<b, 3>>, <<a, 5>> >>

\* The query with single spaces between its tokens and none around them
SingleSpaced(query) == join(split(query))

\* C9: extra spaces between tokens and leading or trailing spaces do not
\* change the outcome: the call returns (or raises) as it does for the
\* query with single spaces and no surrounding spaces.
C9_SpacesDoNotMatter ==
    Called =>
        LET plain == eval_boolean_query(SingleSpaced(call.query), posting_list, all_docs)
        IN  /\ plain.raised = (call.status = "raised")
            /\ plain.value = call.value

\* C10: the reports are those of the index as built from the documents,
\* whatever queries ran before them, so every reported term has a
\* cardinality of at least 1.
AsBuilt(report) ==
    report.called =>
        /\ report.value = top_bottom_n_terms(InvertedIndex(documents), report.n, report.top)
        /\ \A k \in 1..Len(report.value) : report.value[k][2] >= 1

C10_ReportsIgnoreQueries == AsBuilt(top_ten_terms) /\ AsBuilt(bottom_ten_terms)

====
